---- MODULE Spec2Model ----
(***************************************************************************)
(* ChatInterface (src/src/components/ChatInterface.tsx): the microphone    *)
(* permission flag, the transcript and the handlers the component hands to *)
(* useConversation, together with the three user controls it renders.      *)
(*                                                                         *)
(* The component keeps two pieces of state of its own, messages and        *)
(* isPermissionGranted.  conversation.status and conversation.isSpeaking   *)
(* belong to the useConversation hook; the component only reads them.      *)
(* Their transitions are taken from the session state machine of the       *)
(* specification (section 4.2).                                            *)
(*                                                                         *)
(* Every action is one run of a handler (or of the continuation of an      *)
(* async handler after its await).  toasts, console and calls hold what    *)
(* that run emitted; thrown tells whether an error escaped it, and trigger *)
(* what started it.                                                        *)
(***************************************************************************)
EXTENDS Integers, Sequences, FiniteSets, TLC

\* Bounds of the model.
MaxEvents == 2      \* inbound message events delivered in one behaviour
MaxInFlight == 2    \* capability calls awaiting completion at once
MaxClock == 1       \* largest reading of the local clock

VARIABLES
    messages,             \* useState<Message[]>([])
    isPermissionGranted,  \* useState(false)
    status,               \* conversation.status
    isSpeaking,           \* conversation.isSpeaking
    permPending,          \* getUserMedia calls awaiting completion
    startPending,         \* conversation.startSession calls awaiting completion
    endPending,           \* conversation.endSession calls awaiting completion
    received,             \* every event handed to onMessage, in receipt order
    now,                  \* last reading of the local clock by new Date()
    toasts,               \* toast(...) calls of the last handler run
    console,              \* console.log / console.error calls of the last handler run
    calls,                \* capability calls issued by the last handler run
    thrown,               \* TRUE iff the last handler run let an error escape
    trigger,              \* what the last handler run was started by
    errorSeen             \* TRUE iff onError has run

vars == <<messages, isPermissionGranted, status, isSpeaking, permPending,
          startPending, endPending, received, now, toasts, console, calls, thrown,
          trigger, errorSeen>>

----------------------------------------------------------------------------
\* Values

Undefined == "undefined"

\* JavaScript truthiness of a string-or-undefined value.
Truthy(v) == v # Undefined /\ v # ""

Statuses == {"idle", "connecting", "connected", "ended", "errored"}

\* The inbound message events of the model: message.message may be missing,
\* and so may its role and its content; the content may be the empty string.
MessageEvents ==
    { [hasMessage |-> TRUE,  role |-> "user",      content |-> "Hello"],
      [hasMessage |-> TRUE,  role |-> "assistant", content |-> "Hello"],
      [hasMessage |-> TRUE,  role |-> "user",      content |-> ""],
      [hasMessage |-> TRUE,  role |-> "user",      content |-> Undefined],
      [hasMessage |-> TRUE,  role |-> Undefined,   content |-> "Hello"],
      [hasMessage |-> FALSE, role |-> Undefined,   content |-> Undefined] }

\* message.message?.role and message.message?.content
RoleOf(message) == IF message.hasMessage THEN message.role ELSE Undefined
ContentOf(message) == IF message.hasMessage THEN message.content ELSE Undefined

\* What starts a handler run: the component mounting, an event of the agent
\* session, a click on the offered control, or an awaited call completing
\* (ok) or failing (~ok).
Mount == [kind |-> "mount", name |-> "ChatInterface", ok |-> TRUE]
Event(name) == [kind |-> "event", name |-> name, ok |-> TRUE]
Click(name) == [kind |-> "click", name |-> name, ok |-> TRUE]
Settled(name, ok) == [kind |-> "settled", name |-> name, ok |-> ok]
\* The speakingChanged event carries the new value of isSpeaking.
SpeakingChanged(speaking) ==
    [kind |-> "event", name |-> "speakingChanged", ok |-> TRUE,
     isSpeaking |-> speaking]

\* The toasts of the component.
ToastConnected ==
    [title |-> "Verbunden", variant |-> "default"]
ToastError ==
    [title |-> "Fehler", variant |-> "destructive"]
ToastPermissionGranted ==
    [title |-> "Mikrofonzugriff erlaubt", variant |-> "default"]
ToastPermissionDenied ==
    [title |-> "Mikrofonzugriff verweigert", variant |-> "destructive"]
ToastConnectionFailed ==
    [title |-> "Verbindung fehlgeschlagen", variant |-> "destructive"]
ToastConversationEnded ==
    [title |-> "Konversation beendet", variant |-> "default"]

----------------------------------------------------------------------------
\* Mutant: the start control is rendered without looking at isPermissionGranted.
OfferedControl_Ungated ==
    IF status = "connected" THEN "endConversation" ELSE "startConversation"

\* Mutant: the start control is rendered only before the first session.
OfferedControl_StartOnlyIdle ==
    IF ~isPermissionGranted THEN "requestMicrophonePermission"
    ELSE IF status = "idle" THEN "startConversation"
    ELSE "endConversation"

\* The control the component renders.
OfferedControl ==
    IF ~isPermissionGranted THEN "requestMicrophonePermission"
    ELSE IF status = "connected" THEN "endConversation"
    ELSE "startConversation"

\* Mutant: the two branches of the conversation.isSpeaking ternary are swapped.
SpeakingIndicator_Inverted ==
    IF ~isPermissionGranted THEN "not rendered"
    ELSE IF status = "connected"
         THEN (IF isSpeaking THEN "Hoert zu..." ELSE "Agent spricht...")
         ELSE "not rendered"

\* Mutant: the indicator is rendered whenever the session is connected.
SpeakingIndicator_Ungated ==
    IF status = "connected"
    THEN (IF isSpeaking THEN "Agent spricht..." ELSE "Hoert zu...")
    ELSE "not rendered"

\* The speaking indicator the component renders: conversation.isSpeaking is
\* read only in the branch that also renders the end control.
SpeakingIndicator ==
    IF ~isPermissionGranted THEN "not rendered"
    ELSE IF status = "connected"
         THEN (IF isSpeaking THEN "Agent spricht..." ELSE "Hoert zu...")
         ELSE "not rendered"

\* The states of the specification's PermissionState that a value of
\* isPermissionGranted stands for: the flag does not tell unrequested from denied.
PermissionStates ==
    IF isPermissionGranted THEN {"granted"} ELSE {"unrequested", "denied"}

\* The capability calls awaiting completion.
InFlight == permPending + startPending + endPending

\* Mutant: a connect event is ignored once the session is errored.
StatusOnConnect_StuckErrored ==
    IF status = "errored" THEN "errored" ELSE "connected"

\* SessionStatus after each lifecycle step (specification, section 4.2).
StatusOnStart == "connecting"
StatusOnEnd == "ended"
StatusOnConnect == "connected"
StatusOnDisconnect == "ended"
StatusOnError == "errored"

----------------------------------------------------------------------------
Init ==
    /\ messages = <<>>
    /\ isPermissionGranted = FALSE
    /\ status = "idle"
    /\ isSpeaking = FALSE
    /\ permPending = 0
    /\ startPending = 0
    /\ endPending = 0
    /\ received = <<>>
    /\ now = 0
    /\ toasts = <<>>
    /\ console = <<>>
    /\ calls = <<>>
    /\ thrown = FALSE
    /\ trigger = Mount
    /\ errorSeen = FALSE

----------------------------------------------------------------------------
\* Event handlers passed to useConversation

onConnect ==
    /\ status' = StatusOnConnect
    /\ console' = <<"Connected to ElevenLabs">>
    /\ toasts' = <<ToastConnected>>
    /\ calls' = <<>>
    /\ trigger' = Event("connect")
    /\ thrown' = FALSE
    /\ UNCHANGED <<errorSeen, messages, isPermissionGranted, isSpeaking, permPending,
                   startPending, endPending, received, now>>

onDisconnect ==
    /\ status' = StatusOnDisconnect
    /\ console' = <<"Disconnected from ElevenLabs">>
    /\ toasts' = <<>>
    /\ calls' = <<>>
    /\ trigger' = Event("disconnect")
    /\ thrown' = FALSE
    /\ UNCHANGED <<errorSeen, messages, isPermissionGranted, isSpeaking, permPending,
                   startPending, endPending, received, now>>

\* The condition of onMessage.
Accepted(message) == Truthy(RoleOf(message)) /\ Truthy(ContentOf(message))

\* Mutant: onMessage tests the role only.
MessagesAfter_RoleOnly(prev, message, t) ==
    IF Truthy(RoleOf(message))
    THEN Append(prev, [role |-> RoleOf(message),
                       content |-> ContentOf(message),
                       timestamp |-> t])
    ELSE prev

\* Mutant: onMessage accepts a message only while the session is connected.
MessagesAfter_OnlyConnected(prev, message, t) ==
    IF status = "connected" /\ Accepted(message)
    THEN Append(prev, [role |-> RoleOf(message),
                       content |-> ContentOf(message),
                       timestamp |-> t])
    ELSE prev

\* Mutant: the new turn is put in front, [newMessage, ...prev].
MessagesAfter_Prepend(prev, message, t) ==
    IF Accepted(message)
    THEN <<[role |-> RoleOf(message),
            content |-> ContentOf(message),
            timestamp |-> t]>> \o prev
    ELSE prev

\* The messages after onMessage(message) at clock reading t.
MessagesAfter(prev, message, t) ==
    IF Accepted(message)
    THEN Append(prev, [role |-> RoleOf(message),
                       content |-> ContentOf(message),
                       timestamp |-> t])
    ELSE prev

onMessage ==
    /\ Len(received) < MaxEvents
    /\ \E message \in MessageEvents, t \in now..MaxClock :
          /\ received' = Append(received, message)
          /\ now' = IF Accepted(message) THEN t ELSE now
          /\ messages' = MessagesAfter(messages, message, t)
    /\ console' = <<"Message received:">>
    /\ toasts' = <<>>
    /\ calls' = <<>>
    /\ trigger' = Event("message")
    /\ thrown' = FALSE
    /\ UNCHANGED <<errorSeen, isPermissionGranted, status, isSpeaking, permPending,
                   startPending, endPending>>

\* Mutant: onError tears the session down, conversation.endSession().
onError_EndsSession ==
    /\ status' = StatusOnEnd
    /\ endPending' = endPending + 1
    /\ console' = <<"Conversation error:">>
    /\ toasts' = <<ToastError>>
    /\ calls' = <<"endSession">>
    /\ trigger' = Event("error")
    /\ thrown' = FALSE
    /\ errorSeen' = TRUE
    /\ UNCHANGED <<messages, isPermissionGranted, isSpeaking, permPending,
                   startPending, received, now>>

onError ==
    /\ status' = StatusOnError
    /\ console' = <<"Conversation error:">>
    /\ toasts' = <<ToastError>>
    /\ calls' = <<>>
    /\ trigger' = Event("error")
    /\ thrown' = FALSE
    /\ errorSeen' = TRUE
    /\ UNCHANGED <<messages, isPermissionGranted, isSpeaking, permPending,
                   startPending, endPending, received, now>>

\* speakingChanged: the hook updates conversation.isSpeaking.
onModeChange ==
    /\ \E speaking \in BOOLEAN :
          /\ isSpeaking' = speaking
          /\ trigger' = SpeakingChanged(speaking)
    /\ console' = <<>>
    /\ toasts' = <<>>
    /\ calls' = <<>>
    /\ thrown' = FALSE
    /\ UNCHANGED <<errorSeen, messages, isPermissionGranted, status, permPending,
                   startPending, endPending, received, now>>

----------------------------------------------------------------------------
\* requestMicrophonePermission: the click, up to the await

requestMicrophonePermission ==
    /\ OfferedControl = "requestMicrophonePermission"
    /\ InFlight < MaxInFlight
    /\ permPending' = permPending + 1
    /\ calls' = <<"getUserMedia">>
    /\ console' = <<>>
    /\ toasts' = <<>>
    /\ trigger' = Click("requestMicrophonePermission")
    /\ thrown' = FALSE
    /\ UNCHANGED <<errorSeen, messages, isPermissionGranted, status, isSpeaking,
                   startPending, endPending, received, now>>

\* Mutant: the try block shows the toast but never calls setIsPermissionGranted.
requestMicrophonePermissionResolved_NoState ==
    /\ permPending > 0
    /\ permPending' = permPending - 1
    /\ toasts' = <<ToastPermissionGranted>>
    /\ console' = <<>>
    /\ calls' = <<>>
    /\ trigger' = Settled("getUserMedia", TRUE)
    /\ thrown' = FALSE
    /\ UNCHANGED <<errorSeen, messages, isPermissionGranted, status, isSpeaking,
                   startPending, endPending, received, now>>

\* Mutant: the try block toggles the flag, setIsPermissionGranted((g) => !g).
requestMicrophonePermissionResolved_Toggle ==
    /\ permPending > 0
    /\ permPending' = permPending - 1
    /\ isPermissionGranted' = ~isPermissionGranted
    /\ toasts' = <<ToastPermissionGranted>>
    /\ console' = <<>>
    /\ calls' = <<>>
    /\ trigger' = Settled("getUserMedia", TRUE)
    /\ thrown' = FALSE
    /\ UNCHANGED <<errorSeen, messages, status, isSpeaking, startPending,
                   endPending, received, now>>

\* getUserMedia resolved: the rest of the try block
requestMicrophonePermissionResolved ==
    /\ permPending > 0
    /\ permPending' = permPending - 1
    /\ isPermissionGranted' = TRUE
    /\ toasts' = <<ToastPermissionGranted>>
    /\ console' = <<>>
    /\ calls' = <<>>
    /\ trigger' = Settled("getUserMedia", TRUE)
    /\ thrown' = FALSE
    /\ UNCHANGED <<errorSeen, messages, status, isSpeaking, startPending, endPending,
                   received, now>>

\* getUserMedia rejected: the catch block
requestMicrophonePermissionRejected ==
    /\ permPending > 0
    /\ permPending' = permPending - 1
    /\ console' = <<"Microphone permission denied:">>
    /\ toasts' = <<ToastPermissionDenied>>
    /\ calls' = <<>>
    /\ trigger' = Settled("getUserMedia", FALSE)
    /\ thrown' = FALSE
    /\ UNCHANGED <<errorSeen, messages, isPermissionGranted, status, isSpeaking,
                   startPending, endPending, received, now>>

----------------------------------------------------------------------------
\* startConversation: the click, up to the await

\* Mutant: starting a session clears the transcript, setMessages([]).
startConversation_ClearsTranscript ==
    /\ OfferedControl = "startConversation"
    /\ InFlight < MaxInFlight
    /\ startPending' = startPending + 1
    /\ status' = StatusOnStart
    /\ messages' = <<>>
    /\ calls' = <<"startSession">>
    /\ console' = <<>>
    /\ toasts' = <<>>
    /\ trigger' = Click("startConversation")
    /\ thrown' = FALSE
    /\ UNCHANGED <<errorSeen, isPermissionGranted, isSpeaking, permPending,
                   endPending, received, now>>

startConversation ==
    /\ OfferedControl = "startConversation"
    /\ InFlight < MaxInFlight
    /\ startPending' = startPending + 1
    /\ status' = StatusOnStart
    /\ calls' = <<"startSession">>
    /\ console' = <<>>
    /\ toasts' = <<>>
    /\ trigger' = Click("startConversation")
    /\ thrown' = FALSE
    /\ UNCHANGED <<errorSeen, messages, isPermissionGranted, isSpeaking, permPending,
                   endPending, received, now>>

\* conversation.startSession resolved: the try block has nothing left to do
startConversationResolved ==
    /\ startPending > 0
    /\ startPending' = startPending - 1
    /\ console' = <<>>
    /\ toasts' = <<>>
    /\ calls' = <<>>
    /\ trigger' = Settled("startSession", TRUE)
    /\ thrown' = FALSE
    /\ UNCHANGED <<errorSeen, messages, isPermissionGranted, status, isSpeaking,
                   permPending, endPending, received, now>>

\* Mutant: the catch block calls conversation.startSession again.
startConversationRejected_Retry ==
    /\ startPending > 0
    /\ startPending' = startPending
    /\ console' = <<"Failed to start conversation:">>
    /\ toasts' = <<ToastConnectionFailed>>
    /\ calls' = <<"startSession">>
    /\ trigger' = Settled("startSession", FALSE)
    /\ thrown' = FALSE
    /\ UNCHANGED <<errorSeen, messages, isPermissionGranted, status, isSpeaking,
                   permPending, endPending, received, now>>

\* conversation.startSession rejected: the catch block
startConversationRejected ==
    /\ startPending > 0
    /\ startPending' = startPending - 1
    /\ console' = <<"Failed to start conversation:">>
    /\ toasts' = <<ToastConnectionFailed>>
    /\ calls' = <<>>
    /\ trigger' = Settled("startSession", FALSE)
    /\ thrown' = FALSE
    /\ UNCHANGED <<errorSeen, messages, isPermissionGranted, status, isSpeaking,
                   permPending, endPending, received, now>>

----------------------------------------------------------------------------
\* endConversation: the click, up to the await

endConversation ==
    /\ OfferedControl = "endConversation"
    /\ InFlight < MaxInFlight
    /\ endPending' = endPending + 1
    /\ status' = StatusOnEnd
    /\ calls' = <<"endSession">>
    /\ console' = <<>>
    /\ toasts' = <<>>
    /\ trigger' = Click("endConversation")
    /\ thrown' = FALSE
    /\ UNCHANGED <<errorSeen, messages, isPermissionGranted, isSpeaking, permPending,
                   startPending, received, now>>

\* conversation.endSession resolved: the rest of the try block
endConversationResolved ==
    /\ endPending > 0
    /\ endPending' = endPending - 1
    /\ toasts' = <<ToastConversationEnded>>
    /\ console' = <<>>
    /\ calls' = <<>>
    /\ trigger' = Settled("endSession", TRUE)
    /\ thrown' = FALSE
    /\ UNCHANGED <<errorSeen, messages, isPermissionGranted, status, isSpeaking,
                   permPending, startPending, received, now>>

\* Mutant: the catch block tells the user with a destructive toast.
endConversationRejected_Toast ==
    /\ endPending > 0
    /\ endPending' = endPending - 1
    /\ console' = <<"Failed to end conversation:">>
    /\ toasts' = <<ToastError>>
    /\ calls' = <<>>
    /\ trigger' = Settled("endSession", FALSE)
    /\ thrown' = FALSE
    /\ UNCHANGED <<errorSeen, messages, isPermissionGranted, status, isSpeaking,
                   permPending, startPending, received, now>>

\* Mutant: the catch block logs and throws the error again.
endConversationRejected_Rethrow ==
    /\ endPending > 0
    /\ endPending' = endPending - 1
    /\ console' = <<"Failed to end conversation:">>
    /\ toasts' = <<>>
    /\ calls' = <<>>
    /\ trigger' = Settled("endSession", FALSE)
    /\ thrown' = TRUE
    /\ UNCHANGED <<errorSeen, messages, isPermissionGranted, status, isSpeaking,
                   permPending, startPending, received, now>>

\* conversation.endSession rejected: the catch block
endConversationRejected ==
    /\ endPending > 0
    /\ endPending' = endPending - 1
    /\ console' = <<"Failed to end conversation:">>
    /\ toasts' = <<>>
    /\ calls' = <<>>
    /\ trigger' = Settled("endSession", FALSE)
    /\ thrown' = FALSE
    /\ UNCHANGED <<errorSeen, messages, isPermissionGranted, status, isSpeaking,
                   permPending, startPending, received, now>>

----------------------------------------------------------------------------
Next ==
    \/ onConnect
    \/ onDisconnect
    \/ onMessage
    \/ onError
    \/ onModeChange
    \/ requestMicrophonePermission
    \/ requestMicrophonePermissionResolved
    \/ requestMicrophonePermissionRejected
    \/ startConversation
    \/ startConversationResolved
    \/ startConversationRejected
    \/ endConversation
    \/ endConversationResolved
    \/ endConversationRejected

Spec == Init /\ [][Next]_vars

TypeOK ==
    /\ isPermissionGranted \in BOOLEAN
    /\ status \in Statuses
    /\ isSpeaking \in BOOLEAN
    /\ permPending \in 0..MaxInFlight
    /\ startPending \in 0..MaxInFlight
    /\ endPending \in 0..MaxInFlight
    /\ Len(received) <= MaxEvents
    /\ Len(messages) <= Len(received)
    /\ now \in 0..MaxClock
    /\ thrown \in BOOLEAN
    /\ errorSeen \in BOOLEAN

----------------------------------------------------------------------------
\* Properties

\* An inbound message event carries both a role and a non-empty content.
HasRole(message) == message.hasMessage /\ message.role \in {"user", "assistant"}
HasContent(message) ==
    message.hasMessage /\ message.content # Undefined /\ message.content # ""
WellFormed(message) == HasRole(message) /\ HasContent(message)

\* The role and content of each turn of a transcript, in order.
Turns(transcript) ==
    [i \in 1..Len(transcript) |->
        [role |-> transcript[i].role, content |-> transcript[i].content]]

\* The turns carried by the well-formed events of a stream, in receipt order.
WellFormedTurns(stream) ==
    LET kept == SelectSeq(stream, WellFormed)
    IN  [i \in 1..Len(kept) |->
            [role |-> kept[i].role, content |-> kept[i].content]]

\* C1: whatever else has run, the transcript is exactly the subsequence of
\* the received message events that carry both a role and a non-empty
\* content, in receipt order; every other event has added nothing.
C1_TranscriptIsWellFormedSubsequence ==
    Turns(messages) = WellFormedTurns(received)

\* C1 witness: a dropped event (role user, empty content, on an empty
\* transcript) followed by an accepted one.
C1_Witness ==
    /\ Len(received) >= 2
    /\ received[1] = [hasMessage |-> TRUE, role |-> "user", content |-> ""]
    /\ WellFormed(received[2])
    /\ Len(messages) = Len(received) - 1

\* C2: a handler run issues startSession only when permission is granted.
C2_StartOnlyWhenGranted ==
    (\E i \in 1..Len(calls) : calls[i] = "startSession")
        => PermissionStates = {"granted"}

\* C2 witness: startSession has just been called.
C2_Witness ==
    /\ trigger = Click("startConversation")
    /\ calls = <<"startSession">>

\* C3 (as claimed): when a capture request fails, PermissionState becomes
\* denied, whatever it was before and whatever else is in flight, and exactly
\* one failure notification, distinct from the granted one, is emitted.
C3_FailureYieldsDenied ==
    trigger = Settled("getUserMedia", FALSE) =>
        /\ "denied" \in PermissionStates
        /\ toasts = <<ToastPermissionDenied>>
        /\ ToastPermissionDenied # ToastPermissionGranted

\* C4: when a capture request succeeds, PermissionState is granted and the
\* run has emitted the granted notification once and nothing else.
C4_SuccessYieldsGranted ==
    trigger = Settled("getUserMedia", TRUE) =>
        /\ PermissionStates = {"granted"}
        /\ toasts = <<ToastPermissionGranted>>

\* C4 witness: a capture request succeeded while another is still in flight.
C4_Witness ==
    /\ trigger = Settled("getUserMedia", TRUE)
    /\ permPending = 1

\* C5: PermissionState starts at unrequested, and no step takes it from
\* granted back to unrequested.
C5_GrantedNeverUnrequested ==
    /\ "unrequested" \in PermissionStates
    /\ [][ "granted" \in PermissionStates
             => "unrequested" \notin PermissionStates' ]_vars

\* C5 witness: a capture request failed after another one had succeeded, and
\* the state is still granted.
C5_Witness ==
    /\ trigger = Settled("getUserMedia", FALSE)
    /\ PermissionStates = {"granted"}

\* C6: when the connect call of startSession fails, that run leaves
\* SessionStatus, the transcript and PermissionState as they were, emits the
\* "connection failed" notification once and issues no call; unless the
\* status is connected, the start control is offered again.
C6_ConnectFailure ==
    [][ trigger' = Settled("startSession", FALSE) =>
          /\ status' = status
          /\ (status' # "connected" => OfferedControl' = "startConversation")
          /\ toasts' = <<ToastConnectionFailed>>
          /\ messages' = messages
          /\ PermissionStates' = PermissionStates
          /\ calls' = <<>> ]_vars

\* C6 witness: the connect call failed while connecting; start is offered.
C6_Witness ==
    /\ trigger = Settled("startSession", FALSE)
    /\ status = "connecting"
    /\ OfferedControl = "startConversation"
    /\ startPending = 0

\* C7: endSession moves SessionStatus to ended when it is called; a failing
\* teardown does not move it back, and from ended the start control is offered.
C7_TeardownFailureStaysEnded ==
    [][ /\ trigger' = Click("endConversation") => status' = "ended"
        /\ trigger' = Settled("endSession", FALSE) =>
              /\ status' = status
              /\ (status' = "ended" => OfferedControl' = "startConversation") ]_vars

\* C7 witness: the teardown failed; the session is ended and start is offered.
C7_Witness ==
    /\ trigger = Settled("endSession", FALSE)
    /\ status = "ended"
    /\ OfferedControl = "startConversation"

\* C8: a successful teardown emits the "conversation ended" notification
\* once; a failed teardown emits no notification and is only logged.
C8_EndNotification ==
    /\ trigger = Settled("endSession", TRUE) => toasts = <<ToastConversationEnded>>
    /\ trigger = Settled("endSession", FALSE) =>
          /\ toasts = <<>>
          /\ console = <<"Failed to end conversation:">>

\* C8 witness: a teardown has just failed.
C8_Witness ==
    /\ trigger = Settled("endSession", FALSE)
    /\ endPending = 0

C10_ErroredNotTerminal ==
    [][ /\ trigger' = Event("connect") => status' = "connected"
        /\ trigger' = Event("disconnect") => status' = "ended" ]_vars

\* C10 witness: a connect event right after an error event.
C10_Witness ==
    /\ errorSeen
    /\ trigger = Event("connect")
    /\ status = "connected"

\* C11: only a message event that carries both a role and a non-empty content
\* changes the transcript, and it changes it by appending: every other run
\* (clicks, completions, connect, disconnect, error, speakingChanged) leaves
\* it alone, and no turn is ever removed, modified or reordered.
C11_TranscriptAppendOnly ==
    [][ /\ messages' # messages =>
              /\ trigger' = Event("message")
              /\ Len(received') = Len(received) + 1
              /\ WellFormed(received'[Len(received')])
              /\ Len(messages') = Len(messages) + 1
        /\ Len(messages') >= Len(messages)
        /\ SubSeq(messages', 1, Len(messages)) = messages ]_vars

\* C11 witness: a session is started again after an error event, and the
\* turns received before are still there.
C11_Witness ==
    /\ trigger = Click("startConversation")
    /\ errorSeen
    /\ Len(messages) > 0

\* C12: in every reachable state, whatever the SessionStatus and whatever
\* calls are still awaiting completion, each message event that carries a role
\* and a non-empty content can be delivered, and delivering it appends its
\* turn to the transcript.
C12_IngestionNotGated ==
    Len(received) < MaxEvents =>
        \A message \in MessageEvents :
            WellFormed(message) =>
                ENABLED ( /\ onMessage
                          /\ received' = Append(received, message)
                          /\ Turns(messages') =
                                Append(Turns(messages),
                                       [role |-> message.role,
                                        content |-> message.content]) )

\* C12 witness: a message was appended while startSession was still awaiting
\* completion and no connect event had made the session connected.
C12_Witness ==
    /\ trigger = Event("message")
    /\ status = "connecting"
    /\ startPending > 0
    /\ Len(received) > 0
    /\ WellFormed(received[Len(received)])
    /\ Len(messages) > 0

\* C13: a speakingChanged event sets the speaking indicator to the value it
\* carries, so the indicator shows the value of the most recent one; nothing
\* else changes it, and a speakingChanged event adds no turn to the transcript.
C13_SpeakingLastEventWins ==
    [][ /\ \A speaking \in BOOLEAN :
              trigger' = SpeakingChanged(speaking) =>
                  /\ isSpeaking' = speaking
                  /\ OfferedControl' = "endConversation" =>
                        SpeakingIndicator' =
                            IF speaking THEN "Agent spricht..." ELSE "Hoert zu..."
                  /\ messages' = messages
        /\ isSpeaking' # isSpeaking => trigger'.name = "speakingChanged" ]_vars

\* C13 witness: a speakingChanged(true) event arrived on a connected session
\* before any message event; the indicator shows it and the transcript is empty.
C13_Witness ==
    /\ trigger = SpeakingChanged(TRUE)
    /\ SpeakingIndicator = "Agent spricht..."
    /\ received = <<>>
    /\ messages = <<>>

\* C14 (as claimed): startSession is called only while SessionStatus is idle,
\* ended or errored, never while it is connecting or connected, and never
\* while another startSession call is still awaiting completion.
C14_StartOnlyWhenUnstarted ==
    [][ trigger' = Click("startConversation") =>
            /\ status \in {"idle", "ended", "errored"}
            /\ startPending = 0 ]_vars

\* C15: an error event emits the failure notification once and nothing else,
\* leaves the transcript and PermissionState as they were, and issues no
\* call: it does not tear the session down.
C15_ErrorEventFrame ==
    [][ trigger' = Event("error") =>
            /\ toasts' = <<ToastError>>
            /\ ToastError.variant = "destructive"
            /\ messages' = messages
            /\ PermissionStates' = PermissionStates
            /\ calls' = <<>>
            /\ endPending' = endPending ]_vars

\* C15 witness: an error event on a granted session with a transcript.
C15_Witness ==
    /\ trigger = Event("error")
    /\ PermissionStates = {"granted"}
    /\ Len(messages) > 0
    /\ toasts = <<ToastError>>

\* C16: the component renders the speaking indicator, and so reads
\* conversation.isSpeaking, only while SessionStatus is connected and
\* permission is granted; in every other state the value is not shown.
C16_SpeakingReadOnlyWhenConnected ==
    SpeakingIndicator # "not rendered" =>
        /\ status = "connected"
        /\ PermissionStates = {"granted"}

\* C16 witness: the indicator is rendered on a connected, granted session.
C16_Witness ==
    /\ SpeakingIndicator = "Agent spricht..."
    /\ status = "connected"
    /\ isSpeaking

\* C17: with a local clock that never goes backwards, the timestamps of the
\* transcript are non-decreasing in transcript order, and the newest turn
\* carries the clock reading taken when it was received.
C17_TimestampsNonDecreasing ==
    /\ \A i, j \in 1..Len(messages) :
          i < j => messages[i].timestamp <= messages[j].timestamp
    /\ Len(messages) > 0 => messages[Len(messages)].timestamp = now

\* C17 witness: two turns received at different clock readings.
C17_Witness ==
    /\ Len(messages) >= 2
    /\ messages[1].timestamp < messages[2].timestamp

\* The control offered in a state, as the claim gives it.
ControlRule ==
    /\ OfferedControl \in {"requestMicrophonePermission", "endConversation",
                           "startConversation"}
    /\ OfferedControl = "requestMicrophonePermission"
          <=> PermissionStates # {"granted"}
    /\ OfferedControl = "endConversation"
          <=> (PermissionStates = {"granted"} /\ status = "connected")
    /\ OfferedControl = "startConversation"
          <=> (PermissionStates = {"granted"} /\ status # "connected")

\* C18: in every reachable state exactly one control is offered, fixed by the
\* permission flag and the status alone; a click runs the offered control
\* only, so endSession is called only from a state with permission granted
\* and SessionStatus connected.
C18_OneControlOffered ==
    /\ ControlRule
    /\ [][ /\ ControlRule'
           /\ trigger'.kind = "click" => trigger'.name = OfferedControl
           /\ (\E i \in 1..Len(calls') : calls'[i] = "endSession") =>
                 /\ PermissionStates = {"granted"}
                 /\ status = "connected" ]_vars

\* C18 witness: endSession has just been called from the end control; the
\* status is ended and the start control is offered.
C18_Witness ==
    /\ trigger = Click("endConversation")
    /\ calls = <<"endSession">>
    /\ OfferedControl = "startConversation"
====
